---- MODULE Spec2Model ----
(***************************************************************************)
(* The sequential middleware dispatcher of the Express toy applications.   *)
(*                                                                         *)
(* A path is the sequence of its segments: "/" is << >>, "/add-product"    *)
(* is <<"add-product">>, "/add-product/x" is <<"add-product", "x">>.       *)
(* The Route Table is built by app.use calls at startup (Register) and is  *)
(* read by every request afterwards.  A request walks the table: the       *)
(* dispatcher invokes the next matching entry, the handler runs its        *)
(* operations (res.send, next()), and the chain ends when the response is  *)
(* sent, when a handler returns without sending or calling next (the       *)
(* request hangs), or when the table is exhausted.                         *)
(* The admin and shop application adds a body parser, routers and the      *)
(* shared products list; the plain http server (HttpSpec) has no table and  *)
(* runs one listener, statement by statement, for every request.           *)
(***************************************************************************)
EXTENDS Naturals, Sequences, FiniteSets

VARIABLES phase, table, clients, pc, req, idx, hp, resp, log, errors,
          products, body, parsed, http

vars == <<phase, table, clients, pc, req, idx, hp, resp, log, errors,
          products, body, parsed, http>>

reqVars == <<pc, req, idx, hp, resp, log, errors, body, parsed>>

(* ------------------------------ bounds -------------------------------- *)

\* Longest Route Table the startup phase registers.
MaxTable == 3

\* Number of request slots (connections) of the concurrent specification.
NumReq == 2

Reqs == 1..NumReq

(* ------------------------------ data ---------------------------------- *)

\* The path prefixes the applications register: '/' and '/add-product'.
Prefixes == {<< >>, <<"add-product">>}

\* Request paths: "/", "/add-product", "/add-product/x", "/other".
ReqPaths == {<< >>, <<"add-product">>, <<"add-product", "x">>, <<"other">>}

Methods == {"GET", "POST"}

\* What a handler does when invoked, as the sequence of its calls:
\*   next      (req, res, next) => { next() }
\*   send      (req, res, next) => { res.send(...) }
\*   notFound  (req, res, next) => { res.status(404).send(...) }
\*   hang      a handler that neither sends nor calls next()
\*   sendNext  a handler that calls next() after sending the response
\*   sendSend  a handler that sends twice
\*   throw     a handler that raises
\*   sendThrow a handler that raises after sending the response
\* Variant: the fallback sends its page without setting the 404 status.
HandlerOpsFallbackOk(h) ==
    CASE h = "next"     -> <<"next">>
      [] h = "send"     -> <<"send">>
      [] h = "notFound" -> <<"send">>
      [] h = "hang"     -> << >>
      [] h = "sendNext" -> <<"send", "next">>
      [] h = "sendSend" -> <<"send", "send">>
      [] h = "throw"    -> <<"throw">>
      [] h = "sendThrow" -> <<"send", "throw">>

HandlerOps(h) ==
    CASE h = "next"     -> <<"next">>
      [] h = "send"     -> <<"send">>
      [] h = "notFound" -> <<"send404">>
      [] h = "hang"     -> << >>
      [] h = "sendNext" -> <<"send", "next">>
      [] h = "sendSend" -> <<"send", "send">>
      [] h = "throw"    -> <<"throw">>
      [] h = "sendThrow" -> <<"send", "throw">>

Handlers == {"next", "send", "hang", "sendNext", "sendSend"}

\* The entries app.use can register: any handler under any prefix, and the
\* 404 fallback, which is registered without a path.
Entries ==
    [prefix : Prefixes, h : Handlers] \cup {[prefix |-> << >>, h |-> "notFound"]}

\* The two-middleware application.
TwoMiddlewareApp ==
    << [prefix |-> << >>, h |-> "next"],
       [prefix |-> << >>, h |-> "send"] >>

\* Variant: the first middleware of the three-middleware application does
\* not call next().
ThreeMiddlewareAppNoNext ==
    << [prefix |-> << >>, h |-> "hang"],
       [prefix |-> <<"add-product">>, h |-> "send"],
       [prefix |-> << >>, h |-> "send"] >>

\* The three-middleware application.
ThreeMiddlewareApp ==
    << [prefix |-> << >>, h |-> "next"],
       [prefix |-> <<"add-product">>, h |-> "send"],
       [prefix |-> << >>, h |-> "send"] >>

Unsent == [state |-> "unsent", status |-> 0, by |-> 0]

(* ------------------------------ matching ------------------------------ *)

\* app.use(path, handler) filters by path, segment by segment: the entry
\* matches when each of its segments equals the request's segment at the same
\* position.
RECURSIVE SegmentsMatch(_, _, _)
SegmentsMatch(prefix, path, k) ==
    IF k > Len(prefix) THEN TRUE
    ELSE IF k > Len(path) THEN FALSE
    ELSE IF prefix[k] # path[k] THEN FALSE
    ELSE SegmentsMatch(prefix, path, k + 1)

\* Variant: the entry matches only the request for exactly its path.
MatchesExact(prefix, path) == prefix = path

\* Variant: the path filter is ignored, every entry matches every request.
MatchesAny(prefix, path) == TRUE

Matches(prefix, path) == SegmentsMatch(prefix, path, 1)

\* matches(request): the matching entries' positions, in table order.
RECURSIVE MatchingFrom(_, _, _)
MatchingFrom(t, path, k) ==
    IF k > Len(t) THEN << >>
    ELSE IF Matches(t[k].prefix, path)
         THEN <<k>> \o MatchingFrom(t, path, k + 1)
         ELSE MatchingFrom(t, path, k + 1)

MatchingEntries(t, path) == MatchingFrom(t, path, 1)

\* Variant: the table is walked from its end towards its head.
NextMatchBackward(t, path, k) ==
    LET all  == MatchingFrom(t, path, 1)
        left == SelectSeq(all, LAMBDA j : k = 0 \/ j < k)
    IN  IF left = << >> THEN 0 ELSE left[Len(left)]

\* The first matching entry after position k, or 0 when there is none.
NextMatch(t, path, k) ==
    LET rest == MatchingFrom(t, path, k + 1)
    IN  IF rest = << >> THEN 0 ELSE rest[1]

(* ------------------------------ startup ------------------------------- *)

\* Variant: the table is keyed by prefix; registering a prefix again replaces
\* the entry already there.
RegisterKeyed(e) ==
    /\ phase = "startup"
    /\ Len(table) < MaxTable
    /\ table' = IF \E i \in 1..Len(table) : table[i].prefix = e.prefix
                THEN [i \in 1..Len(table) |->
                        IF table[i].prefix = e.prefix THEN e ELSE table[i]]
                ELSE Append(table, e)
    /\ UNCHANGED <<phase, clients, http, products, reqVars>>

\* app.use(prefix, handler): the entry goes to the end of the table.
Register(e) ==
    /\ phase = "startup"
    /\ Len(table) < MaxTable
    /\ table' = Append(table, e)
    /\ UNCHANGED <<phase, clients, http, products, reqVars>>

\* app.listen(3000): the table is complete, requests are accepted.
Listen ==
    /\ phase = "startup"
    /\ phase' = "serving"
    /\ UNCHANGED <<table, clients, http, products, reqVars>>

(* ------------------------------ one request --------------------------- *)

Event(ev, i) == [ev |-> ev, at |-> i]

\* The titles a submitted form carries; "none" is a body without a title.
Titles == {"book", "pen"}

\* Files under the public directory that express.static serves.
PublicFiles == {<<"css", "main.css">>}

\* The part of the request path below the prefix an entry is mounted at.
SubPath(prefix, path) == SubSeq(path, Len(prefix) + 1, Len(path))

\* Variant: the admin router registers its handlers for every method.
AdminRouteOpsAnyMethod(m, sub) ==
    IF sub = <<"add-product">> THEN <<"push", "redirect">> ELSE <<"next">>

\* routes/admin.js: router.get('/add-product') sends the form page,
\* router.post('/add-product') stores the title and redirects to '/';
\* anything else is passed on by the router.
AdminRouteOps(m, sub) ==
    IF sub = <<"add-product">> /\ m = "GET" THEN <<"sendFile">>
    ELSE IF sub = <<"add-product">> /\ m = "POST" THEN <<"push", "redirect">>
    ELSE <<"next">>

\* Variant: the shop handler is registered like app.use: any method, any
\* path below the mount point.
ShopRouteOpsPrefix(m, sub) == <<"render">>

\* The shop router: router.get('/') renders the shop page.
ShopRouteOps(m, sub) ==
    IF sub = << >> /\ m = "GET" THEN <<"render">> ELSE <<"next">>

\* express.static answers a GET for an existing file and passes on the rest.
StaticOps(m, sub) ==
    IF sub \in PublicFiles /\ m = "GET" THEN <<"sendFile">> ELSE <<"next">>

Routers == {"adminRouter", "shopRouter", "static"}

RouteOps(e, rq) ==
    CASE e.h = "adminRouter" -> AdminRouteOps(rq.method, SubPath(e.prefix, rq.path))
      [] e.h = "shopRouter"  -> ShopRouteOps(rq.method, SubPath(e.prefix, rq.path))
      [] e.h = "static"      -> StaticOps(rq.method, SubPath(e.prefix, rq.path))

\* bodyParser.urlencoded parses the body into req.body and calls next().
CurrentOps(r) ==
    LET e == table[idx[r]]
    IN  IF e.h \in Routers THEN RouteOps(e, req[r])
        ELSE IF e.h = "bodyParser" THEN <<"parse", "next">>
        ELSE HandlerOps(e.h)

CurrentOp(r) == CurrentOps(r)[hp[r]]

\* An incoming request takes a free slot and enters the chain at its head.
Arrive(r, m, p) ==
    /\ phase = "serving"
    /\ r \in clients
    /\ pc[r] = "idle"
    /\ pc' = [pc EXCEPT ![r] = "dispatch"]
    /\ req' = [req EXCEPT ![r] = [method |-> m, path |-> p]]
    /\ UNCHANGED <<phase, table, clients, http, products, body, parsed, idx, hp, resp, log, errors>>

InvokeEffect(r) ==
    /\ NextMatch(table, req[r].path, idx[r]) # 0
    /\ idx' = [idx EXCEPT ![r] = NextMatch(table, req[r].path, idx[r])]
    /\ hp' = [hp EXCEPT ![r] = 1]
    /\ pc' = [pc EXCEPT ![r] = "handler"]
    /\ log' = [log EXCEPT ![r] = Append(@, Event("invoke", idx'[r]))]
    /\ UNCHANGED <<phase, table, clients, http, products, body, parsed, req, resp, errors>>

\* Variant: the dispatcher also advances by itself when a handler has returned
\* without sending or calling next().
InvokeAfterReturn(r) ==
    /\ pc[r] \in {"dispatch", "hung"}
    /\ InvokeEffect(r)

\* Variant: the dispatcher does not wait for the running handler; it invokes
\* the following matching entry while the current one is still running.
InvokeEager(r) ==
    /\ pc[r] \in {"dispatch", "handler"}
    /\ InvokeEffect(r)

\* Variant: one chain at a time; a handler is invoked only while no other
\* request's chain is unfinished.
InvokeSerial(r) ==
    /\ pc[r] = "dispatch"
    /\ \A q \in Reqs \ {r} : pc[q] \in {"idle", "done"}
    /\ InvokeEffect(r)

\* The dispatcher advances to the following matching entry and invokes it.
Invoke(r) ==
    /\ pc[r] = "dispatch"
    /\ InvokeEffect(r)

\* Variant: an exhausted chain is left without a response.
DefaultLeavesHanging(r) ==
    /\ pc[r] = "dispatch"
    /\ NextMatch(table, req[r].path, idx[r]) = 0
    /\ pc' = [pc EXCEPT ![r] = "hung"]
    /\ UNCHANGED <<phase, table, clients, http, products, body, parsed, req, idx, hp, resp, log, errors>>

\* The chain is exhausted: the dispatcher finalizes the response itself.
DefaultNotFound(r) ==
    /\ pc[r] = "dispatch"
    /\ NextMatch(table, req[r].path, idx[r]) = 0
    /\ pc' = [pc EXCEPT ![r] = "done"]
    /\ IF resp[r].state = "unsent"
       THEN /\ resp' = [resp EXCEPT ![r] =
                          [state |-> "sent", status |-> 404, by |-> 0]]
            /\ log' = [log EXCEPT ![r] = Append(@, Event("notfound", 0))]
       ELSE UNCHANGED <<resp, log>>
    /\ UNCHANGED <<phase, table, clients, http, products, body, parsed, req, idx, hp, errors>>

\* res.send / sendFile / render answer 200 unless res.status(404) was set;
\* res.redirect answers 302.
StatusOf(op) ==
    CASE op = "send404"  -> 404
      [] op = "redirect" -> 302
      [] OTHER           -> 200

SendOps == {"send", "send404", "sendFile", "render", "redirect"}

SendWrites(r) ==
    /\ resp' = [resp EXCEPT ![r] =
                  [state  |-> "sent",
                   status |-> StatusOf(CurrentOp(r)),
                   by     |-> idx[r]]]
    /\ log' = [log EXCEPT ![r] = Append(@, Event("send", idx[r]))]

SendThrows(r) ==
    /\ errors' = [errors EXCEPT ![r] = Append(@, "DoubleResponseError")]
    /\ log' = [log EXCEPT ![r] = Append(@, Event("error", idx[r]))]
    /\ pc' = [pc EXCEPT ![r] = "done"]
    /\ UNCHANGED <<resp, hp>>

AtSend(r) ==
    /\ pc[r] = "handler"
    /\ hp[r] <= Len(CurrentOps(r))
    /\ CurrentOp(r) \in SendOps

AtNext(r) ==
    /\ pc[r] = "handler"
    /\ hp[r] <= Len(CurrentOps(r))
    /\ CurrentOp(r) = "next"

\* Variant: sending does not end the chain; the dispatcher goes on to the
\* following matching entry.
SendFallsThrough(r) ==
    /\ AtSend(r)
    /\ IF resp[r].state = "unsent"
       THEN /\ SendWrites(r)
            /\ pc' = [pc EXCEPT ![r] = "dispatch"]
            /\ UNCHANGED <<hp, errors>>
       ELSE SendThrows(r)
    /\ UNCHANGED <<phase, table, clients, http, products, body, parsed, req, idx>>

\* Variant: a send on a response already sent writes again.
SendUnguarded(r) ==
    /\ AtSend(r)
    /\ SendWrites(r)
    /\ hp' = [hp EXCEPT ![r] = @ + 1]
    /\ UNCHANGED <<pc, errors>>
    /\ UNCHANGED <<phase, table, clients, http, products, body, parsed, req, idx>>

\* res.send(...) / res.status(404).send(...): the first send finalizes the
\* response; a send on a response already sent throws and writes nothing.
Send(r) ==
    /\ AtSend(r)
    /\ IF resp[r].state = "unsent"
       THEN /\ SendWrites(r)
            /\ hp' = [hp EXCEPT ![r] = @ + 1]
            /\ UNCHANGED <<pc, errors>>
       ELSE SendThrows(r)
    /\ UNCHANGED <<phase, table, clients, http, products, body, parsed, req, idx>>

\* next() while the response is unsent: control goes back to the dispatcher.
CallNext(r) ==
    /\ AtNext(r)
    /\ resp[r].state = "unsent"
    /\ pc' = [pc EXCEPT ![r] = "dispatch"]
    /\ log' = [log EXCEPT ![r] = Append(@, Event("next", idx[r]))]
    /\ UNCHANGED <<phase, table, clients, http, products, body, parsed, req, idx, hp, resp, errors>>

\* Variant: next() after the response was sent is silently ignored.
NextAfterSentIgnored(r) ==
    /\ AtNext(r)
    /\ resp[r].state = "sent"
    /\ hp' = [hp EXCEPT ![r] = @ + 1]
    /\ log' = [log EXCEPT ![r] = Append(@, Event("next", idx[r]))]
    /\ UNCHANGED <<phase, table, clients, http, products, body, parsed, req, idx, pc, resp, errors>>

\* next() after the response was sent: a DoubleResponseError, the chain ends.
NextAfterSent(r) ==
    /\ AtNext(r)
    /\ resp[r].state = "sent"
    /\ errors' = [errors EXCEPT ![r] = Append(@, "DoubleResponseError")]
    /\ log' = [log EXCEPT ![r] = Append(@, Event("error", idx[r]))]
    /\ pc' = [pc EXCEPT ![r] = "done"]
    /\ UNCHANGED <<phase, table, clients, http, products, body, parsed, req, idx, hp, resp>>

\* The handler returns.  With the response sent the chain is over; with the
\* response unsent and next() not called, nothing advances the chain.
Return(r) ==
    /\ pc[r] = "handler"
    /\ hp[r] > Len(CurrentOps(r))
    /\ pc' = [pc EXCEPT ![r] = IF resp[r].state = "sent" THEN "done" ELSE "hung"]
    /\ log' = [log EXCEPT ![r] = Append(@, Event("return", idx[r]))]
    /\ UNCHANGED <<phase, table, clients, http, products, body, parsed, req, idx, hp, resp, errors>>

ThrowEffect(r) ==
    /\ errors' = [errors EXCEPT ![r] = Append(@, "HandlerError")]
    /\ IF resp[r].state = "unsent"
       THEN /\ resp' = [resp EXCEPT ![r] =
                          [state |-> "sent", status |-> 500, by |-> 0]]
            /\ log' = [log EXCEPT ![r] =
                         @ \o << Event("throw", idx[r]), Event("failure", 0) >>]
       ELSE /\ log' = [log EXCEPT ![r] = Append(@, Event("throw", idx[r]))]
            /\ UNCHANGED resp

AtThrow(r) ==
    /\ pc[r] = "handler"
    /\ hp[r] <= Len(CurrentOps(r))
    /\ CurrentOp(r) = "throw"

\* Variant: the generic failure outcome is written whatever the state of the
\* response.
ThrowOverwrites(r) ==
    /\ AtThrow(r)
    /\ pc' = [pc EXCEPT ![r] = "done"]
    /\ errors' = [errors EXCEPT ![r] = Append(@, "HandlerError")]
    /\ resp' = [resp EXCEPT ![r] = [state |-> "sent", status |-> 500, by |-> 0]]
    /\ log' = [log EXCEPT ![r] =
                 @ \o << Event("throw", idx[r]), Event("failure", 0) >>]
    /\ UNCHANGED <<phase, table, clients, http, products, body, parsed, req, idx, hp>>

\* Variant: a handler's exception ends every chain in flight.
ThrowAbortsAll(r) ==
    /\ AtThrow(r)
    /\ pc' = [q \in Reqs |-> IF pc[q] = "idle" THEN "idle" ELSE "done"]
    /\ ThrowEffect(r)
    /\ UNCHANGED <<phase, table, clients, http, products, body, parsed, req, idx, hp>>

\* The handler raises: the chain is aborted, the error goes to the error
\* reporter, and a response not yet sent is finalized as a generic failure.
Throw(r) ==
    /\ AtThrow(r)
    /\ pc' = [pc EXCEPT ![r] = "done"]
    /\ ThrowEffect(r)
    /\ UNCHANGED <<phase, table, clients, http, products, body, parsed, req, idx, hp>>

Step(r) ==
    \/ Invoke(r)
    \/ DefaultNotFound(r)
    \/ Send(r)
    \/ CallNext(r)
    \/ NextAfterSent(r)
    \/ Return(r)

(* ------------------------------ admin and shop ------------------------ *)

\* A request that carries a form body.
ArriveForm(r, m, p, t) ==
    /\ phase = "serving"
    /\ r \in clients
    /\ pc[r] = "idle"
    /\ pc' = [pc EXCEPT ![r] = "dispatch"]
    /\ req' = [req EXCEPT ![r] = [method |-> m, path |-> p]]
    /\ body' = [body EXCEPT ![r] = t]
    /\ UNCHANGED <<phase, table, clients, http, products, parsed, idx, hp, resp, log, errors>>

AtOp(r, op) ==
    /\ pc[r] = "handler"
    /\ hp[r] <= Len(CurrentOps(r))
    /\ CurrentOp(r) = op

\* The body parser sets req.body.
ParseBody(r) ==
    /\ AtOp(r, "parse")
    /\ parsed' = [parsed EXCEPT ![r] = TRUE]
    /\ hp' = [hp EXCEPT ![r] = @ + 1]
    /\ UNCHANGED <<phase, table, clients, http, products, body, req, idx, pc, resp, log, errors>>

\* req.body.title: the submitted title, undefined when the form has none.
TitleOf(r) == IF body[r] = "none" THEN "undefined" ELSE body[r]

\* Variant: the handler keeps only the latest product.
PushProductOverwrites(r) ==
    /\ AtOp(r, "push")
    /\ parsed[r]
    /\ products' = << [title |-> TitleOf(r)] >>
    /\ hp' = [hp EXCEPT ![r] = @ + 1]
    /\ log' = [log EXCEPT ![r] = Append(@, Event("push", idx[r]))]
    /\ UNCHANGED <<phase, table, clients, http, body, parsed, req, idx, pc, resp, errors>>

\* products.push({title: req.body.title}); reading .title of an unset
\* req.body raises.
PushProduct(r) ==
    /\ AtOp(r, "push")
    /\ IF parsed[r]
       THEN /\ products' = Append(products, [title |-> TitleOf(r)])
            /\ hp' = [hp EXCEPT ![r] = @ + 1]
            /\ log' = [log EXCEPT ![r] = Append(@, Event("push", idx[r]))]
            /\ UNCHANGED <<pc, resp, errors>>
       ELSE /\ pc' = [pc EXCEPT ![r] = "done"]
            /\ ThrowEffect(r)
            /\ UNCHANGED <<products, hp>>
    /\ UNCHANGED <<phase, table, clients, http, body, parsed, req, idx>>

AppStep(r) ==
    \/ Invoke(r)
    \/ ParseBody(r)
    \/ PushProduct(r)
    \/ Send(r)
    \/ CallNext(r)
    \/ Return(r)

(* ------------------------------ plain http server --------------------- *)

\* The request urls: '/', and urls that are not exactly '/'.
Urls == {"/", "/message", "/favicon.ico", "/?q=1", "//"}

\* The four chunks of the form page and of the 'my first page' document.
FormPage ==
    << "<html>",
       "<head><title>Enter Message</title></head>",
       "<body><form action=\"/message\" method=\"POST\"><input type=\"text\" name=\"message\"><button type=\"submit\">send</button></form></body>",
       "</html>" >>

FirstPage ==
    << "<html>",
       "<head><title>my first page</title></head>",
       "<body><h1>hellow from nodejs</h1></body>",
       "</html>" >>

\* The listener's state for one request: the line it is at (0 before the
\* request, Returned after the listener returned), the request's url and
\* method, the headers set, the body chunks written, the calls of res.end()
\* and the writes attempted on an ended response.
HttpIdle ==
    [line |-> 0, url |-> "/", method |-> "GET", headers |-> << >>,
     chunks |-> << >>, ends |-> 0, lateWrites |-> 0]

Returned == 17

WriteLines == {6, 7, 8, 9, 12, 13, 14, 15}

\* The chunk the res.write of a line writes.
ChunkAt(l) == IF l <= 9 THEN FormPage[l - 5] ELSE FirstPage[l - 11]

\* The listener runs to completion: a request event is handled only while no
\* other request's listener is running.
ListenerRunning == \E q \in Reqs : http[q].line \notin {0, Returned}

\* A request arrives and the listener is called with it.
HttpRequest(r, m, u) ==
    /\ r \in clients
    /\ http[r].line = 0
    /\ ~ListenerRunning
    /\ http' = [http EXCEPT ![r].line = 3, ![r].url = u, ![r].method = m]
    /\ UNCHANGED <<phase, table, clients, products, reqVars>>

\* res.setHeader('content-type', 'text/html')
SetHeader(r) ==
    /\ http[r].line = 3
    /\ http' = [http EXCEPT
                  ![r].headers = Append(@, <<"content-type", "text/html">>),
                  ![r].line = 5]
    /\ UNCHANGED <<phase, table, clients, products, reqVars>>

\* const url = req.url; if (url === '/')
TestUrl(r) ==
    /\ http[r].line = 5
    /\ http' = [http EXCEPT ![r].line = IF http[r].url = "/" THEN 6 ELSE 12]
    /\ UNCHANGED <<phase, table, clients, products, reqVars>>

\* res.write(chunk); a write on an ended response adds nothing to the body.
Write(r) ==
    /\ http[r].line \in WriteLines
    /\ http' = [http EXCEPT
                  ![r].chunks = IF http[r].ends = 0
                                THEN Append(@, ChunkAt(http[r].line)) ELSE @,
                  ![r].lateWrites = IF http[r].ends = 0 THEN @ ELSE @ + 1,
                  ![r].line = @ + 1]
    /\ UNCHANGED <<phase, table, clients, products, reqVars>>

\* Variant: the response is ended on '/' without returning from the listener.
EndNoReturn(r) ==
    /\ http[r].line \in {10, 16}
    /\ http' = [http EXCEPT
                  ![r].ends = @ + 1,
                  ![r].line = IF http[r].line = 10 THEN 12 ELSE Returned]
    /\ UNCHANGED <<phase, table, clients, products, reqVars>>

\* return res.end() on '/', res.end() as the last statement otherwise.
End(r) ==
    /\ http[r].line \in {10, 16}
    /\ http' = [http EXCEPT ![r].ends = @ + 1, ![r].line = Returned]
    /\ UNCHANGED <<phase, table, clients, products, reqVars>>

(* ------------------------------ specifications ------------------------ *)

InitReqs ==
    /\ pc = [r \in Reqs |-> "idle"]
    /\ req = [r \in Reqs |-> [method |-> "GET", path |-> << >>]]
    /\ idx = [r \in Reqs |-> 0]
    /\ hp = [r \in Reqs |-> 1]
    /\ resp = [r \in Reqs |-> Unsent]
    /\ log = [r \in Reqs |-> << >>]
    /\ errors = [r \in Reqs |-> << >>]
    /\ body = [r \in Reqs |-> "none"]
    /\ parsed = [r \in Reqs |-> FALSE]
    /\ products = << >>
    /\ http = [r \in Reqs |-> HttpIdle]

\* One request against every Route Table the startup phase can build.
Init ==
    /\ phase = "startup"
    /\ table = << >>
    /\ clients = {1}
    /\ InitReqs

Next ==
    \/ \E e \in Entries : Register(e)
    \/ Listen
    \/ \E r \in Reqs, m \in Methods, p \in ReqPaths : Arrive(r, m, p)
    \/ \E r \in Reqs : Step(r)

Spec == Init /\ [][Next]_vars


\* Several requests in flight against one Route Table that is already
\* complete: the source's two applications, an application whose first
\* '/add-product' handler hangs, and one whose only handler calls next()
\* after sending.
HangApp ==
    << [prefix |-> <<"add-product">>, h |-> "hang"],
       [prefix |-> << >>, h |-> "send"] >>

SendNextApp == << [prefix |-> <<"add-product">>, h |-> "sendNext"] >>

ConcTables == {TwoMiddlewareApp, ThreeMiddlewareApp, HangApp, SendNextApp}

ConcPaths == {<< >>, <<"add-product">>}

InitConc ==
    /\ phase = "serving"
    /\ table \in ConcTables
    /\ clients = Reqs
    /\ InitReqs

NextConc ==
    \/ \E r \in Reqs, m \in Methods, p \in ConcPaths : Arrive(r, m, p)
    \/ \E r \in Reqs : Step(r)

\* The event loop runs every callback that is ready: a chain that can take a
\* step eventually takes it.  Nothing obliges a client to send a request.
ConcSpec == InitConc /\ [][NextConc]_vars /\ \A r \in Reqs : WF_vars(Step(r))

\* Several requests against applications with a handler that raises, before
\* or after sending, and with a handler that calls next() after sending.
ThrowApp == << [prefix |-> <<"add-product">>, h |-> "throw"] >>

SendThrowApp ==
    << [prefix |-> << >>, h |-> "next"],
       [prefix |-> <<"add-product">>, h |-> "sendThrow"],
       [prefix |-> << >>, h |-> "send"] >>

SendNextThenSendApp ==
    << [prefix |-> <<"add-product">>, h |-> "sendNext"],
       [prefix |-> << >>, h |-> "send"] >>

ErrTables == {ThrowApp, SendThrowApp, SendNextThenSendApp}

InitErr ==
    /\ phase = "serving"
    /\ table \in ErrTables
    /\ clients = Reqs
    /\ InitReqs

NextErr ==
    \/ \E r \in Reqs, m \in Methods, p \in ConcPaths : Arrive(r, m, p)
    \/ \E r \in Reqs : Step(r)
    \/ \E r \in Reqs : Throw(r)

ErrSpec == InitErr /\ [][NextErr]_vars

\* Variant: the admin router is registered without its '/admin' mount prefix.
AdminShopAppUnmounted ==
    << [prefix |-> << >>, h |-> "bodyParser"],
       [prefix |-> << >>, h |-> "adminRouter"],
       [prefix |-> << >>, h |-> "shopRouter"],
       [prefix |-> << >>, h |-> "notFound"] >>

\* The admin and shop application: body parser, admin router under '/admin',
\* shop router, page-not-found fallback.
AdminShopApp ==
    << [prefix |-> << >>, h |-> "bodyParser"],
       [prefix |-> <<"admin">>, h |-> "adminRouter"],
       [prefix |-> << >>, h |-> "shopRouter"],
       [prefix |-> << >>, h |-> "notFound"] >>

\* Variant: the body parser is registered after the routers.
AdminShopStaticAppParserLast ==
    << [prefix |-> << >>, h |-> "static"],
       [prefix |-> <<"admin">>, h |-> "adminRouter"],
       [prefix |-> << >>, h |-> "shopRouter"],
       [prefix |-> << >>, h |-> "bodyParser"],
       [prefix |-> << >>, h |-> "notFound"] >>

\* The same application serving its public directory as well.
AdminShopStaticApp ==
    << [prefix |-> << >>, h |-> "bodyParser"],
       [prefix |-> << >>, h |-> "static"],
       [prefix |-> <<"admin">>, h |-> "adminRouter"],
       [prefix |-> << >>, h |-> "shopRouter"],
       [prefix |-> << >>, h |-> "notFound"] >>

AdminApps == {AdminShopApp, AdminShopStaticApp}

SourceApps == {TwoMiddlewareApp, ThreeMiddlewareApp} \cup AdminApps

AppMethods == {"GET", "POST", "PUT"}

\* "/", "/add-product", "/admin", "/admin/add-product",
\* "/admin/add-product/x", "/other", "/css/main.css".
AppPaths ==
    {<< >>, <<"add-product">>, <<"admin">>, <<"admin", "add-product">>,
     <<"admin", "add-product", "x">>, <<"other">>, <<"css", "main.css">>}

FormsOf(m) == IF m = "POST" THEN Titles \cup {"none"} ELSE {"none"}

\* One request against each application of the repository.
InitApp ==
    /\ phase = "serving"
    /\ table \in SourceApps
    /\ clients = {1}
    /\ InitReqs

NextApp ==
    \/ \E r \in Reqs, m \in AppMethods, p \in AppPaths :
          \E t \in FormsOf(m) : ArriveForm(r, m, p, t)
    \/ \E r \in Reqs : AppStep(r)

AppSpec == InitApp /\ [][NextApp]_vars /\ \A r \in Reqs : WF_vars(AppStep(r))

\* Several users of the admin and shop application at once.
InitProducts ==
    /\ phase = "serving"
    /\ table = AdminShopApp
    /\ clients = Reqs
    /\ InitReqs

NextProducts ==
    \/ \E r \in Reqs, t \in Titles \cup {"none"} :
          ArriveForm(r, "POST", <<"admin", "add-product">>, t)
    \/ \E r \in Reqs, p \in {<< >>, <<"admin", "add-product">>} :
          ArriveForm(r, "GET", p, "none")
    \/ \E r \in Reqs : AppStep(r)

ProductsSpec == InitProducts /\ [][NextProducts]_vars

\* The plain http server: no route table, one listener for every request.
InitHttp ==
    /\ phase = "serving"
    /\ table = << >>
    /\ clients = Reqs
    /\ InitReqs

NextHttp ==
    \/ \E r \in Reqs, m \in AppMethods, u \in Urls : HttpRequest(r, m, u)
    \/ \E r \in Reqs : SetHeader(r)
    \/ \E r \in Reqs : TestUrl(r)
    \/ \E r \in Reqs : Write(r)
    \/ \E r \in Reqs : End(r)

HttpSpec == InitHttp /\ [][NextHttp]_vars

(* ------------------------------ properties ---------------------------- *)

EventsOf(r, ev) == SelectSeq(log[r], LAMBDA e : e.ev = ev)

\* The handlers invoked for request r, in the order of their invocation.
Invoked(r) ==
    [k \in 1..Len(EventsOf(r, "invoke")) |-> EventsOf(r, "invoke")[k].at]

\* The finalizations of r's response: handlers' sends, the default 404 and the
\* generic failure.
Finalizations(r) ==
    SelectSeq(log[r], LAMBDA e : e.ev \in {"send", "notfound", "failure"})

\* p is a prefix of q: q is p followed by some further segments.
IsPathPrefix(p, q) == Len(p) <= Len(q) /\ SubSeq(q, 1, Len(p)) = p

MatchingSet(r) ==
    {i \in 1..Len(table) : IsPathPrefix(table[i].prefix, req[r].path)}

HasEvent(r, ev, i) == \E k \in 1..Len(log[r]) : log[r][k] = Event(ev, i)

\* C1: the handlers invoked for a request are matching entries, invoked in
\* strictly increasing table position (registration order): of two invoked
\* entries the earlier registered one is invoked first, and none twice.
C1_RegistrationOrder ==
    \A r \in Reqs :
        LET s == Invoked(r)
        IN  /\ \A a, b \in 1..Len(s) : a < b => s[a] < s[b]
            /\ \A a \in 1..Len(s) : s[a] \in MatchingSet(r)

C1_Witness ==
    \E r \in Reqs : Len(Invoked(r)) = 3 /\ table[2].prefix # table[1].prefix

\* C2: once a handler that does not call next() has finalized the response,
\* no handler is invoked afterwards for that request; in the three-middleware
\* application a request under /add-product never reaches the third handler.
C2_NoHandlerAfterFinalize ==
    \A r \in Reqs :
        /\ \A a, b \in 1..Len(log[r]) :
              ( /\ a < b
                /\ log[r][a].ev = "send"
                /\ \A k \in 1..Len(HandlerOps(table[log[r][a].at].h)) :
                      HandlerOps(table[log[r][a].at].h)[k] # "next" )
              => log[r][b].ev # "invoke"
        /\ ( /\ table = ThreeMiddlewareApp
             /\ pc[r] # "idle"
             /\ IsPathPrefix(<<"add-product">>, req[r].path) )
           => ~HasEvent(r, "invoke", 3)

C2_Witness ==
    \E r \in Reqs :
        /\ table = ThreeMiddlewareApp
        /\ req[r].path = <<"add-product", "x">>
        /\ pc[r] = "done"
        /\ resp[r] = [state |-> "sent", status |-> 200, by |-> 2]

\* Every matching entry of r's chain has called next().
AllCalledNext(r) ==
    /\ pc[r] # "idle"
    /\ \A i \in MatchingSet(r) : HasEvent(r, "next", i)

\* r's chain is over, and every matching entry either called next() or is the
\* 404 fallback, invoked.
OnlyFallbackFinalized(r) ==
    /\ pc[r] = "done"
    /\ \A i \in MatchingSet(r) :
          \/ HasEvent(r, "next", i)
          \/ table[i].h = "notFound" /\ HasEvent(r, "invoke", i)

\* C3: a chain in which every matching handler called next() ends with the
\* default not-found outcome, emitted exactly once by the dispatcher; a chain
\* that ends in the 404 fallback after every other handler called next() ends
\* with the not-found outcome too; and a response whose outcome is not-found
\* was finalized once only, by the dispatcher or by the 404 fallback, after
\* every other invoked handler had called next().
C3_DefaultNotFoundOnce ==
    \A r \in Reqs :
        /\ AllCalledNext(r) =>
              /\ pc[r] \in {"dispatch", "done"}
              /\ pc[r] = "done" =>
                    /\ resp[r] = [state |-> "sent", status |-> 404, by |-> 0]
                    /\ Finalizations(r) = << Event("notfound", 0) >>
        /\ OnlyFallbackFinalized(r) =>
              /\ resp[r].state = "sent" /\ resp[r].status = 404
              /\ Len(Finalizations(r)) = 1
        /\ Len(EventsOf(r, "notfound")) <= 1
        /\ resp[r].status = 404 =>
              /\ Len(Finalizations(r)) = 1
              /\ resp[r].by = 0 \/ table[resp[r].by].h = "notFound"
              /\ \A k \in 1..Len(Invoked(r)) :
                    Invoked(r)[k] # resp[r].by => HasEvent(r, "next", Invoked(r)[k])

C3_Witness ==
    \E r \in Reqs :
        /\ Len(table) = 3
        /\ Len(Invoked(r)) = 2
        /\ AllCalledNext(r)
        /\ pc[r] = "done"
        /\ resp[r] = [state |-> "sent", status |-> 404, by |-> 0]

\* C4: a next() call made while the response is sent reports a
\* DoubleResponseError and leaves the response as the first finalization
\* wrote it; no handler is invoked by it.
C4_NextAfterSentIsError ==
    /\ [][\A r \in Reqs :
            (AtNext(r) /\ resp[r].state = "sent" /\ log'[r] # log[r])
            => /\ errors'[r] = Append(errors[r], "DoubleResponseError")
               /\ resp'[r] = resp[r]
               /\ pc'[r] # "handler"
               /\ idx'[r] = idx[r]]_vars
    /\ [](\A r \in Reqs :
            Len(errors[r]) > 0
            => /\ Len(Finalizations(r)) = 1
               /\ resp[r].state = "sent"
               /\ resp[r].by = Finalizations(r)[1].at)

C4_Witness ==
    \E r \in Reqs :
        /\ idx[r] > 0
        /\ table[idx[r]].h = "sendNext"
        /\ errors[r] = <<"DoubleResponseError">>
        /\ resp[r].state = "sent"

\* C5: a response is finalized at most once, it is sent exactly when it has
\* been finalized, and a sent response never becomes unsent or changes.
C5_SentAtMostOnce ==
    /\ [](\A r \in Reqs :
            /\ Len(Finalizations(r)) <= 1
            /\ resp[r].state = "sent" <=> Len(Finalizations(r)) = 1
            /\ resp[r].state \in {"unsent", "sent"})
    /\ [][\A r \in Reqs : resp[r].state = "sent" => resp'[r] = resp[r]]_vars

C5_Witness ==
    \E r \in Reqs :
        /\ idx[r] > 0
        /\ table[idx[r]].h = "sendSend"
        /\ errors[r] = <<"DoubleResponseError">>
        /\ Len(Finalizations(r)) = 1

\* The Route Table [("/", A), ("/add-product", B)].
ScenarioTable ==
    /\ Len(table) = 2
    /\ table[1].prefix = << >>
    /\ table[2].prefix = <<"add-product">>

SendsFirst(h) == Len(HandlerOps(h)) > 0 /\ HandlerOps(h)[1] \in {"send", "send404"}

\* C6: with the table [("/", A), ("/add-product", B)] and a request for
\* "/add-product", both entries match, A is invoked before B, B is invoked
\* only after A called next(), and the response is that of whichever
\* finalizes first: A's when A sends, B's when A calls next() and B sends.
C6_ScenarioBothMatchInOrder ==
    \A r \in Reqs :
        (ScenarioTable /\ pc[r] # "idle" /\ req[r].path = <<"add-product">>)
        => /\ MatchingEntries(table, req[r].path) = <<1, 2>>
           /\ Invoked(r) \in {<< >>, <<1>>, <<1, 2>>}
           /\ pc[r] \in {"done", "hung"} => Len(Invoked(r)) >= 1
           /\ HasEvent(r, "invoke", 2) => HasEvent(r, "next", 1)
           /\ SendsFirst(table[1].h) =>
                 /\ ~HasEvent(r, "invoke", 2)
                 /\ resp[r].state = "sent" => resp[r].by = 1
           /\ (table[1].h = "next" /\ SendsFirst(table[2].h) /\ pc[r] = "done")
              => /\ Invoked(r) = <<1, 2>>
                 /\ resp[r].state = "sent" /\ resp[r].by = 2

C6_Witness ==
    \E r \in Reqs :
        /\ ScenarioTable
        /\ table[1].h = "next" /\ table[2].h = "send"
        /\ req[r].path = <<"add-product">>
        /\ pc[r] = "done"
        /\ resp[r].by = 2

C8_EmptyTableNotFound ==
    \A r \in Reqs :
        (table = << >> /\ pc[r] # "idle")
        => /\ log[r] \in {<< >>, << Event("notfound", 0) >>}
           /\ pc[r] \in {"dispatch", "done"}
           /\ pc[r] = "dispatch" => ENABLED DefaultNotFound(r)
           /\ pc[r] = "done" =>
                 resp[r] = [state |-> "sent", status |-> 404, by |-> 0]

C8_Witness ==
    \E r \in Reqs :
        /\ table = << >>
        /\ req[r] = [method |-> "POST", path |-> <<"other">>]
        /\ pc[r] = "done"
        /\ resp[r].status = 404

\* C9: after a handler has returned with the response unsent and without
\* calling next(), nothing happens to the request any more: no handler is
\* invoked, no default not-found is emitted, the response stays unsent.
C9_HangStaysHung ==
    /\ [](\A r \in Reqs :
            pc[r] = "hung"
            => /\ resp[r] = Unsent
               /\ Finalizations(r) = << >>
               /\ log[r][Len(log[r])] = Event("return", idx[r])
               /\ ~ENABLED Step(r))
    /\ [][\A r \in Reqs :
            pc[r] = "hung"
            => /\ pc'[r] = "hung"
               /\ resp'[r] = resp[r]
               /\ log'[r] = log[r]
               /\ idx'[r] = idx[r]]_vars

C9_Witness ==
    \E r \in Reqs :
        /\ pc[r] = "hung"
        /\ Len(table) = 3
        /\ idx[r] = 2
        /\ NextMatch(table, req[r].path, idx[r]) = 3

\* The chain of table t for path p reaches a handler that never sends nor
\* calls next().
RECURSIVE ReachesHang(_, _)
ReachesHang(t, m) ==
    IF m = << >> THEN FALSE
    ELSE IF t[m[1]].h = "next" THEN ReachesHang(t, Tail(m))
    ELSE t[m[1]].h = "hang"

WillHang(r) == ReachesHang(table, MatchingEntries(table, req[r].path))

\* C10: while one request hangs, any other request can still arrive, every
\* other request in flight whose own chain does not hang reaches sent, and
\* the Route Table stays as it was.
C10_HangIsLocal ==
    /\ [](\A q, r \in Reqs :
            (q # r /\ pc[q] = "hung" /\ pc[r] = "idle")
            => \A m \in Methods, p \in ConcPaths : ENABLED Arrive(r, m, p))
    /\ \A q, r \in Reqs :
            (q # r /\ pc[q] = "hung" /\ pc[r] # "idle" /\ ~WillHang(r))
            ~> (resp[r].state = "sent" /\ pc[q] = "hung")
    /\ [][table' = table]_vars

C10_Witness ==
    \E q, r \in Reqs :
        /\ q # r
        /\ table = HangApp
        /\ pc[q] = "hung"
        /\ req[r].path = << >>
        /\ pc[r] = "done"
        /\ resp[r] = [state |-> "sent", status |-> 200, by |-> 2]


\* C11: within one chain a handler is invoked only after the handler invoked
\* before it has called next() or has returned, the first event of a chain is
\* an invocation, and the running handler is the one invoked last; chains of
\* different requests interleave.
C11_OneHandlerAtATime ==
    \A r \in Reqs :
        /\ \A k \in 1..Len(log[r]) :
              log[r][k].ev = "invoke" =>
                  \/ k = 1
                  \/ /\ log[r][k-1].ev \in {"next", "return"}
                     /\ log[r][k-1].at = Invoked(r)[Len(Invoked(r)) - 
                           Len(SelectSeq(SubSeq(log[r], k, Len(log[r])),
                                         LAMBDA e : e.ev = "invoke"))]
        /\ Len(log[r]) > 0 => log[r][1].ev = "invoke" \/ log[r][1].ev = "notfound"
        /\ pc[r] = "handler" =>
              /\ Len(Invoked(r)) > 0
              /\ idx[r] = Invoked(r)[Len(Invoked(r))]
              /\ log[r][Len(log[r])].ev \in {"invoke", "send"}

C11_Witness ==
    \E q, r \in Reqs :
        /\ q # r
        /\ pc[q] = "handler" /\ pc[r] = "handler"
        /\ Len(Invoked(r)) = 2
        /\ Len(log[q]) = 1

\* C14: the Route Table changes only at startup and only by one entry added
\* at its end, the earlier entries staying as and where they were; once the
\* application listens the table never changes and startup never resumes.
C14_TableAppendOnly ==
    [][ /\ table' # table =>
              /\ phase = "startup" /\ phase' = "startup"
              /\ Len(table') = Len(table) + 1
              /\ SubSeq(table', 1, Len(table)) = table
              /\ table'[Len(table')] \in Entries
        /\ phase = "serving" => (table' = table /\ phase' = "serving")
        /\ (\E r \in Reqs : pc'[r] # pc[r]) => table' = table ]_vars

\* A table with the same prefix registered twice, serving a request to its end.
C14_Witness ==
    /\ phase = "serving"
    /\ Len(table) = 3
    /\ table[1] = table[2]
    /\ \E r \in Reqs : pc[r] = "done"

\* The matching entries of r's chain that finalize and do not call next().
FinalizersOf(r) ==
    {i \in MatchingSet(r) :
        /\ SendsFirst(table[i].h)
        /\ \A k \in 1..Len(HandlerOps(table[i].h)) : HandlerOps(table[i].h)[k] # "next"}

Least(S) == CHOOSE i \in S : \A j \in S : i <= j

\* The three-middleware application answers 'add product' (its second
\* handler) under /add-product and 'hello from expressjs' (its third) elsewhere.
ThreeMiddlewareAnswers(r) ==
    (table = ThreeMiddlewareApp /\ pc[r] = "done")
    => resp[r] = [state  |-> "sent", status |-> 200,
                  by |-> IF IsPathPrefix(<<"add-product">>, req[r].path)
                         THEN 2 ELSE 3]

C12_HandlerErrorAbortsChain ==
    \A r \in Reqs :
        \A k \in 1..Len(log[r]) :
            log[r][k].ev = "throw" =>
                /\ pc[r] = "done"
                /\ \A j \in (k+1)..Len(log[r]) : log[r][j].ev = "failure"
                /\ Len(SelectSeq(Invoked(r), LAMBDA i : i = log[r][k].at)) = 1
                /\ errors[r] = <<"HandlerError">>
                /\ Len(Finalizations(r)) = 1
                /\ IF \E j \in 1..(k-1) : log[r][j].ev = "send"
                   THEN /\ Len(log[r]) = k
                        /\ resp[r] = [state |-> "sent", status |-> 200,
                                      by |-> log[r][k].at]
                   ELSE /\ Len(log[r]) = k + 1
                        /\ resp[r] = [state |-> "sent", status |-> 500, by |-> 0]

C12_Witness ==
    \E q, r \in Reqs :
        /\ table = SendThrowApp
        /\ errors[q] = <<"HandlerError">> /\ resp[q].status = 200
        /\ errors[r] = << >> /\ pc[r] = "done" /\ resp[r].by = 3

\* What the chain of table t over the matching entries m answers.
RECURSIVE Outcome(_, _)
Outcome(t, m) ==
    IF m = << >> THEN [state |-> "sent", status |-> 404, by |-> 0]
    ELSE CASE t[m[1]].h = "next"     -> Outcome(t, Tail(m))
           [] t[m[1]].h = "hang"     -> Unsent
           [] t[m[1]].h = "throw"    -> [state |-> "sent", status |-> 500, by |-> 0]
           [] t[m[1]].h = "notFound" -> [state |-> "sent", status |-> 404, by |-> m[1]]
           [] OTHER                  -> [state |-> "sent", status |-> 200, by |-> m[1]]

IsSeqPrefix(a, b) == Len(a) <= Len(b) /\ \A k \in 1..Len(a) : a[k] = b[k]

\* C13: a step that reports an error in one request's chain changes nothing
\* of any other request, and whatever errors other requests have met, a
\* request's invoked handlers and final response are those its own path and
\* the table determine.
C13_ErrorsAreLocal ==
    /\ [][\A r \in Reqs :
            errors'[r] # errors[r] =>
                \A q \in Reqs \ {r} :
                    /\ pc'[q] = pc[q] /\ resp'[q] = resp[q]
                    /\ log'[q] = log[q] /\ idx'[q] = idx[q]
                    /\ errors'[q] = errors[q]]_vars
    /\ [](\A q \in Reqs :
            pc[q] # "idle" =>
                /\ IsSeqPrefix(Invoked(q), MatchingEntries(table, req[q].path))
                /\ pc[q] = "done" =>
                      resp[q] = Outcome(table, MatchingEntries(table, req[q].path)))

C13_Witness ==
    \E q, r \in Reqs :
        /\ table = ThrowApp
        /\ errors[r] = <<"HandlerError">>
        /\ pc[q] = "handler" /\ errors[q] = << >>


\* The position of the admin router in the table.
AdminIdx == CHOOSE i \in 1..Len(table) : table[i].h = "adminRouter"

AdminPath == <<"admin", "add-product">>

\* Request r ran one of the admin router's own handlers (the form page or the
\* product submission), not merely the router's pass-through.
RanAdminHandler(r) ==
    \/ HasEvent(r, "push", AdminIdx)
    \/ HasEvent(r, "send", AdminIdx)

\* C16: in the applications that mount the admin router under '/admin', the
\* router is entered only for paths below '/admin' and its handlers run only
\* for '/admin/add-product'; a finished GET or POST of '/admin/add-product'
\* was answered by the admin router; a request to '/add-product' never enters
\* the admin router and finishes with status 404.
C16_AdminOnlyUnderPrefix ==
    \A r \in Reqs :
        (table \in AdminApps /\ pc[r] # "idle") =>
            /\ HasEvent(r, "invoke", AdminIdx) =>
                   IsPathPrefix(<<"admin">>, req[r].path)
            /\ RanAdminHandler(r) => req[r].path = AdminPath
            /\ (req[r].path = AdminPath /\ req[r].method \in {"GET", "POST"}
                  /\ pc[r] = "done") =>
                   /\ resp[r].state = "sent"
                   /\ resp[r].by = AdminIdx
                   /\ resp[r].status \in {200, 302}
            /\ req[r].path = <<"add-product">> =>
                   /\ ~HasEvent(r, "invoke", AdminIdx)
                   /\ ~RanAdminHandler(r)
                   /\ pc[r] # "hung"
                   /\ pc[r] = "done" =>
                          /\ resp[r].state = "sent"
                          /\ resp[r].status = 404
                          /\ resp[r].by = Len(table)

C16_Witness ==
    \E r \in Reqs :
        /\ table = AdminShopApp
        /\ req[r].path = <<"add-product">>
        /\ req[r].method = "POST"
        /\ pc[r] = "done"
        /\ resp[r].status = 404


\* How many entries of the products list equal e.
CountOf(e) == Len(SelectSeq(products, LAMBDA x : x = e))

\* The requests whose product submission handler has stored its entry.
Pushed == {r \in Reqs : \E k \in 1..Len(log[r]) : log[r][k].ev = "push"}

ProductEntries == {[title |-> t] : t \in Titles \cup {"undefined"}}

\* C17: the products list is one list for all requests.  It holds exactly one
\* entry per product submission handler that has run, carrying the title of
\* that request's body, and it changes only by such a handler appending its
\* entry at the end: entries are never lost, overwritten, removed or reordered.
C17_ProductsAppendOnly ==
    /\ [](/\ Len(products) = Cardinality(Pushed)
          /\ \A e \in ProductEntries :
                CountOf(e) = Cardinality({r \in Pushed : [title |-> TitleOf(r)] = e})
          /\ \A k \in 1..Len(products) : products[k] \in ProductEntries)
    /\ [][products' # products =>
            \E r \in Reqs :
                /\ AtOp(r, "push")
                /\ req[r].method = "POST"
                /\ req[r].path = AdminPath
                /\ products' = Append(products, [title |-> TitleOf(r)])
                /\ r \notin Pushed
                /\ log'[r] = Append(log[r], Event("push", idx[r]))]_vars

C17_Witness ==
    /\ Len(products) = 2
    /\ products[1].title = "pen"
    /\ products[2].title = "book"
    /\ \A r \in Reqs : pc[r] = "done"


\* The applications whose last middleware matches every path and sends.
ToyApps == {TwoMiddlewareApp, ThreeMiddlewareApp}

Answered(r) ==
    /\ pc[r] = "done"
    /\ resp[r].state = "sent"
    /\ resp[r].status = 200
    /\ resp[r].by \in 1..Len(table)
    /\ Len(Finalizations(r)) = 1
    /\ Finalizations(r)[1] = Event("send", resp[r].by)

\* C18: in the two-middleware and the three-middleware application no request
\* ever hangs, none exhausts the chain (the default not-found outcome is never
\* possible), no response is finalized twice, and every request that has
\* arrived, whatever its method and path, eventually is done with exactly one
\* response, sent by a handler.
C18_ToyAppsAlwaysAnswer ==
    /\ [](\A r \in Reqs :
            table \in ToyApps =>
                /\ pc[r] # "hung"
                /\ ~ENABLED DefaultNotFound(r)
                /\ Len(Finalizations(r)) <= 1
                /\ errors[r] = << >>
                /\ resp[r].status # 404
                /\ pc[r] = "done" => Answered(r))
    /\ \A r \in Reqs :
          (table \in ToyApps /\ pc[r] = "dispatch") ~> Answered(r)

C18_Witness ==
    \E r \in Reqs :
        /\ table = ThreeMiddlewareApp
        /\ req[r].method = "PUT"
        /\ req[r].path = <<"other">>
        /\ Answered(r)
        /\ resp[r].by = 3


PushCount(r) == Len(SelectSeq(log[r], LAMBDA e : e.ev = "push"))

\* No entry registered after the admin router was invoked for r.
StoppedAtAdmin(r) ==
    \A k \in 1..Len(Invoked(r)) : Invoked(r)[k] <= AdminIdx

\* The admin router passed r on: it called next() without storing or sending,
\* and the entry registered after it was invoked.
FellThroughAdmin(r) ==
    /\ HasEvent(r, "next", AdminIdx)
    /\ ~RanAdminHandler(r)
    /\ HasEvent(r, "invoke", AdminIdx + 1)

ParserWentFirst(r) ==
    /\ Len(log[r]) >= 2
    /\ log[r][1].ev = "invoke"
    /\ table[log[r][1].at].h = "bodyParser"
    /\ log[r][2] = Event("next", log[r][1].at)
    /\ parsed[r]

\* C20: in the applications with the admin and shop routers the first entry
\* invoked for any request is the body parser; any other entry is invoked
\* only after the body parser has run and called next(); the product
\* submission handler reads the title only from a parsed body and so never
\* raises; and every request that has arrived eventually has its body parsed.
C20_BodyParsedBeforeRouters ==
    /\ [](\A r \in Reqs :
            (table \in AdminApps /\ pc[r] # "idle") =>
                /\ Len(Invoked(r)) >= 1 => table[Invoked(r)[1]].h = "bodyParser"
                /\ Len(Invoked(r)) >= 2 => ParserWentFirst(r)
                /\ (idx[r] > 0 /\ table[idx[r]].h \in Routers) => ParserWentFirst(r)
                /\ AtOp(r, "push") => parsed[r]
                /\ PushCount(r) > 0 => ParserWentFirst(r)
                /\ errors[r] = << >>)
    /\ \A r \in Reqs :
          (table \in AdminApps /\ pc[r] = "dispatch") ~> ParserWentFirst(r)

C20_Witness ==
    \E r \in Reqs :
        /\ table = AdminShopStaticApp
        /\ req[r].method = "POST"
        /\ req[r].path = AdminPath
        /\ body[r] = "book"
        /\ AtOp(r, "push")
        /\ ParserWentFirst(r)


HeaderSet(r) ==
    \E k \in 1..Len(http[r].headers) :
        http[r].headers[k] = <<"content-type", "text/html">>

\* C21: in the plain http server, for every request no body chunk is written
\* before the content-type header is set, nothing is written to an ended
\* response, res.end() is called at most once, and when the listener has
\* returned exactly four chunks were written and res.end() was called exactly
\* once; the chunks are the form page if and only if the url is exactly '/',
\* and the 'my first page' document for every other url.
C21_HttpListener ==
    \A r \in Reqs :
        /\ Len(http[r].chunks) > 0 => HeaderSet(r)
        /\ Len(http[r].headers) <= 1
        /\ http[r].lateWrites = 0
        /\ http[r].ends <= 1
        /\ Len(http[r].chunks) <= 4
        /\ http[r].ends = 1 => http[r].line = Returned
        /\ http[r].line = Returned =>
               /\ http[r].ends = 1
               /\ Len(http[r].chunks) = 4
               /\ (http[r].chunks = FormPage) <=> (http[r].url = "/")
               /\ http[r].url # "/" => http[r].chunks = FirstPage

C21_Witness ==
    \E r, q \in Reqs :
        /\ http[r].line = Returned
        /\ http[r].url = "/"
        /\ http[r].chunks = FormPage
        /\ http[q].line = Returned
        /\ http[q].url = "/?q=1"
        /\ http[q].method = "POST"
        /\ http[q].chunks = FirstPage


\* The position of the shop router in the table.
ShopIdx == CHOOSE i \in 1..Len(table) : table[i].h = "shopRouter"

RanShopHandler(r) == HasEvent(r, "send", ShopIdx)

\* r is a GET of a file that a registered express.static serves.
ServedStatically(r) ==
    \E i \in 1..Len(table) :
        /\ table[i].h = "static"
        /\ req[r].method = "GET"
        /\ Matches(table[i].prefix, req[r].path)
        /\ SubPath(table[i].prefix, req[r].path) \in PublicFiles

\* r is the request the shop route is registered for: GET '/'.
ShopRequest(r) == req[r].method = "GET" /\ req[r].path = << >>

\* r ended with the 404 of the fallback, the shop router having passed it on.
FallbackAnswered(r) ==
    /\ resp[r] = [state |-> "sent", status |-> 404, by |-> Len(table)]
    /\ ~RanShopHandler(r)
    /\ HasEvent(r, "next", ShopIdx)

====
